---- MODULE Spec2Model ----
(***************************************************************************)
(* Model of the M1 chatbot demo: the keyword responder and session store   *)
(* of working_chatbot.py (M1ChatbotSystem), the HTTP handlers of           *)
(* api_server.py that wrap it, and the session manager with its expiry     *)
(* sweep of src/api_server.py (AdvancedSessionManager), and the model     *)
(* wrapper with its fallback responder of src/advanced_llm.py              *)
(* (M1OptimizedLLM, SmartFallbackGenerator).                               *)
(*                                                                         *)
(* A process runs one of the two servers; the variable "server" records    *)
(* which.  Spec runs the registry handlers against the cleanup thread step *)
(* by step, SpecLive the same with a fairly scheduled thread; SpecServe    *)
(* runs the session and chat handlers of both servers, a cleanup pass      *)
(* being one step; SpecCompare runs the compare endpoints; SpecTrack       *)
(* follows the request counters; SpecDash runs the dashboard of            *)
(* streamlit_ui.py as a client of the chat endpoint; SpecLoad interleaves  *)
(* threads that call generate_response on one M1OptimizedLLM; SpecRespond  *)
(* and SpecGenerate apply M1ChatbotSystem.chat and                         *)
(* M1OptimizedLLM.generate_response to drawn inputs.  Strings are real     *)
(* strings: the keywords, prefixes and fallback texts are those of the     *)
(* source, the long canned blocks are abbreviated to their first line.     *)
(***************************************************************************)
EXTENDS Integers, Sequences, FiniteSets, TLC

VARIABLES
    server,            \* "basic" (api_server.py), "advanced" (src/api_server.py),
                       \* "responder" (M1ChatbotSystem.chat applied to drawn inputs),
                       \* "llm" (M1OptimizedLLM.generate_response applied to drawn inputs)
                       \* "tracker" (track_request applied to drawn inputs),
                       \* "loader" (threads calling generate_response on one object)
    now,               \* the wall clock reading (time.time() / datetime.now())
    sessions,          \* the registry: session id -> session
    session_metadata,  \* AdvancedSessionManager.session_metadata
    cleanup,           \* the position and locals of the cleanup thread
    last,              \* the outcome of the most recent request
    issued,            \* history: ids that create_session returned
    removed,           \* history: ids that were removed from the registry
    llm,               \* the M1OptimizedLLM object and the path of its last call
    metrics,           \* the request counters track_request keeps
    loading,           \* model_lock and the threads calling generate_response
    dashboard          \* st.session_state of the dashboard (streamlit_ui.py)

vars == <<server, now, sessions, session_metadata, cleanup, last, issued, removed, llm,
          metrics, loading, dashboard>>

----------------------------------------------------------------------------
(* Bounds of the model *)

MaxTime == 2          \* the clock readings are 0..MaxTime
MaxExchanges == 1     \* chat exchanges kept per session
MaxElapsed == 1       \* clock ticks that may pass inside one chat call
MaxWords == 2         \* words per message of the responder's input space
MaxRequests == 1      \* get_session calls counted per session (request_count)
MaxTracked == 4       \* track_request calls followed by the counters

(* Program constants, scaled down to the model's clock and registry *)
TicksPerSecond == 4   \* readings of datetime.now() per reading of int(time.time()) (10^6)
HashSpace == 2        \* values of md5(...).hexdigest()[:8] (16^8)
session_timeout == 1  \* AdvancedSessionManager.session_timeout (4 hours), in clock ticks
max_sessions == 1     \* AdvancedSessionManager.max_sessions (100)
ResponseWindow == 2   \* response times track_request keeps (1000)

----------------------------------------------------------------------------
(* Strings *)

UpperCase == "ABCDEFGHIJKLMNOPQRSTUVWXYZ"
LowerCase == "abcdefghijklmnopqrstuvwxyz"

\* str.lower() on one character
LowerChar(c) ==
    IF \E i \in 1..26 : SubSeq(UpperCase, i, i) = c
    THEN LET i == CHOOSE k \in 1..26 : SubSeq(UpperCase, k, k) = c
         IN  SubSeq(LowerCase, i, i)
    ELSE c

\* str.lower()
RECURSIVE Lower(_)
Lower(s) ==
    IF Len(s) = 0 THEN ""
    ELSE LowerChar(SubSeq(s, 1, 1)) \o Lower(SubSeq(s, 2, Len(s)))

\* Python's "keyword in text"
Contains(keyword, text) ==
    \E i \in 1..(Len(text) - Len(keyword) + 1) :
        SubSeq(text, i, i + Len(keyword) - 1) = keyword

----------------------------------------------------------------------------
(* The static catalogs of M1ChatbotSystem *)

PersonalityIds == <<"technical_expert", "creative_partner", "business_advisor">>
Personalities == {PersonalityIds[i] : i \in 1..Len(PersonalityIds)}

\* _load_personalities: per personality the keyword -> canned block table,
\* in dict (insertion) order
Responses(personality) ==
    CASE personality = "technical_expert" ->
           << [keyword |-> "memory",
               block   |-> "For Python API memory optimization, here's my systematic approach:"],
              [keyword |-> "performance",
               block   |-> "API performance optimization strategy:"],
              [keyword |-> "debug",
               block   |-> "Systematic debugging approach for production issues:"] >>
      [] personality = "creative_partner" ->
           << [keyword |-> "story",
               block   |-> "Exciting story concept! Let's develop this systematically:"],
              [keyword |-> "character",
               block   |-> "Character development is the heart of great storytelling:"],
              [keyword |-> "plot",
               block   |-> "Plot development techniques for compelling narratives:"] >>
      [] personality = "business_advisor" ->
           << [keyword |-> "pricing",
               block   |-> "Strategic SaaS pricing framework:"],
              [keyword |-> "growth",
               block   |-> "Sustainable SaaS growth framework:"],
              [keyword |-> "strategy",
               block   |-> "Strategic business planning methodology:"] >>

\* _load_prompt_techniques: technique -> prefix
PromptTechniques ==
    [ chain_of_thought |-> "Let me think through this systematically, step by step:\n\n",
      few_shot         |-> "Based on similar situations I've encountered:\n\n",
      step_by_step     |-> "I'll break this down into clear, actionable steps:\n\n",
      socratic         |-> "Let me help you explore this through guided questions:\n\n",
      analogical       |-> "Let me explain this using analogies to make it clearer:\n\n" ]

\* ChatRequest.technique of api_server.py
Techniques == DOMAIN PromptTechniques \cup {"standard"}

\* self.prompt_techniques.get(technique, {"prefix": ""})["prefix"]
TechniquePrefix(technique) ==
    IF technique \in DOMAIN PromptTechniques THEN PromptTechniques[technique] ELSE ""

\* the "defaults" table of chat, with its .get default
Defaults(personality) ==
    CASE personality = "technical_expert" ->
           "I can help with technical challenges! Share more details about your specific issue - error messages, system specs, or performance metrics would be helpful for me to provide targeted solutions."
      [] personality = "creative_partner" ->
           "That sounds like an exciting creative project! What aspect would you like to explore first - character development, plot structure, world-building, or writing techniques?"
      [] personality = "business_advisor" ->
           "Great business question! To provide strategic advice, could you share more context about your industry, target market, current business stage, and specific challenges you're facing?"
      [] OTHER ->
           "I'd be happy to help! Could you provide more details about what you're looking for?"

\* a scan in which a later matching keyword overrides an earlier one (no break)
RECURSIVE ScanResponses_NoBreak(_, _, _, _)
ScanResponses_NoBreak(responses, i, user_message_lower, prefix) ==
    IF i > Len(responses)
    THEN [matched |-> FALSE, response |-> ""]
    ELSE LET later == ScanResponses_NoBreak(responses, i + 1, user_message_lower, prefix)
         IN  IF later.matched THEN later
             ELSE IF Contains(responses[i].keyword, user_message_lower)
                  THEN [matched |-> TRUE, response |-> prefix \o responses[i].block]
                  ELSE later

\* the for loop of chat over responses.items(): the first keyword, in table
\* order, that occurs in the lower-cased message decides
RECURSIVE ScanResponses(_, _, _, _)
ScanResponses(responses, i, user_message_lower, prefix) ==
    IF i > Len(responses)
    THEN [matched |-> FALSE, response |-> ""]
    ELSE IF Contains(responses[i].keyword, user_message_lower)
         THEN [matched |-> TRUE, response |-> prefix \o responses[i].block]
         ELSE ScanResponses(responses, i + 1, user_message_lower, prefix)

\* a fallback that leaves the technique's prefix out
DefaultResponse_NoPrefix(personality, prefix) == Defaults(personality)

\* a fallback that takes the prefix of the table's first technique
DefaultResponse_FixedPrefix(personality, prefix) ==
    PromptTechniques["chain_of_thought"] \o Defaults(personality)

\* the fallback branch of chat ("if not response")
DefaultResponse(personality, prefix) == prefix \o Defaults(personality)

\* the response text chat computes for a session of this personality
SelectResponse(personality, user_message, technique) ==
    LET prefix == TechniquePrefix(technique)
        found  == ScanResponses(Responses(personality), 1, Lower(user_message), prefix)
    IN  IF found.matched /\ found.response # ""
        THEN found.response
        ELSE DefaultResponse(personality, prefix)

----------------------------------------------------------------------------
(* Session ids *)

\* hashlib.md5(str(datetime.now()).encode()).hexdigest()[:8]: a fixed lossy
\* function of the clock reading (e.g. the readings 19:13:00.027605 and
\* 19:13:00.032692 of 2026-11-05 both give 10e829b9)
Md5Prefix(t) == t % HashSpace

\* f"session_{int(time.time())}_{md5...[:8]}"
SessionId(t) == <<t \div TicksPerSecond, Md5Prefix(t)>>

NoSessionId == <<>>           \* ChatRequest.session_id = None
IssuableIds == {SessionId(t) : t \in 0..MaxTime}
RequestIds == IssuableIds     \* the ids requests name, live or not

Live == DOMAIN sessions

\* dict assignment d[k] = v
Put(d, k, v) == [x \in DOMAIN d \cup {k} |-> IF x = k THEN v ELSE d[x]]
\* a removal that takes every other key along
Drop_ClearsAll(d, k) == [x \in {} |-> d[x]]

\* del d[k] / d.pop(k, None)
Drop(d, k) == [x \in DOMAIN d \ {k} |-> d[x]]
EmptyDict == [x \in {} |-> x]

----------------------------------------------------------------------------
(* The messages requests carry *)

Vocabulary == {"memory", "Debugging", "PERFORMANCE", "story", "pricing", "hello"}

\* all messages of n words
RECURSIVE WordsOf(_)
WordsOf(n) ==
    IF n = 1 THEN Vocabulary
    ELSE {m \o " " \o w : m \in WordsOf(n - 1), w \in Vocabulary}

Messages == UNION {WordsOf(n) : n \in 1..MaxWords}

\* the messages and techniques sent to the stateful servers
SessionMessages == {"Debugging memory"}
SessionTechniques == {"chain_of_thought"}
SessionPersonalities == {"technical_expert", "creative_partner"}

----------------------------------------------------------------------------
(* M1ChatbotSystem: the session store and the chat engine *)

\* a session record that ignores the requested personality
NewSession_DefaultPersonality(personality, t) ==
    [ personality  |-> "technical_expert",
      created_at   |-> t,
      conversation |-> <<>>,
      stats        |-> [total_messages |-> 0, total_processing_time |-> 0] ]

\* the session record create_session stores
NewSession(personality, t) ==
    [ personality  |-> personality,
      created_at   |-> t,
      conversation |-> <<>>,
      stats        |-> [total_messages |-> 0, total_processing_time |-> 0] ]

\* a create_session whose new session opens with a greeting of the assistant
create_session_WithGreeting(registry, personality, t) ==
    Put(registry, SessionId(t),
        [NewSession(personality, t) EXCEPT
           !.conversation = << [role |-> "assistant", content |-> "Hello!", timestamp |-> t,
                                processing_time |-> 0, personality |-> personality] >>])

\* M1ChatbotSystem.create_session at clock reading t: the registry afterwards
\* (the returned id is SessionId(t))
create_session(registry, personality, t) ==
    Put(registry, SessionId(t), NewSession(personality, t))

\* the two turns chat appends
UserTurn(user_message, technique, t) ==
    [role |-> "user", content |-> user_message, timestamp |-> t, technique |-> technique]

AssistantTurn(response, processing_time, personality, t) ==
    [role |-> "assistant", content |-> response, timestamp |-> t,
     processing_time |-> processing_time, personality |-> personality]

\* the response text per input, computed once
ResponseTable ==
    [ personality \in Personalities, user_message \in Messages \cup SessionMessages,
      technique \in Techniques |-> SelectResponse(personality, user_message, technique) ]

\* a chat that counts the exchange as one message
chat_CountsOneMessage(session, user_message, technique, start_time, elapsed) ==
    [session EXCEPT
       !.conversation = @ \o << UserTurn(user_message, technique, start_time + elapsed),
                                AssistantTurn(ResponseTable[session.personality, user_message,
                                                            technique],
                                              elapsed, session.personality,
                                              start_time + elapsed) >>,
       !.stats.total_messages = @ + 1,
       !.stats.total_processing_time = @ + elapsed]

\* a chat that stores the user turn and stops before the assistant turn
chat_WithoutAssistantTurn(session, user_message, technique, start_time, elapsed) ==
    [session EXCEPT
       !.conversation = @ \o << UserTurn(user_message, technique, start_time + elapsed) >>,
       !.stats.total_messages = @ + 1]

\* M1ChatbotSystem.chat on a session that exists, entered at start_time and
\* finishing elapsed ticks later: the session afterwards
chat(session, user_message, technique, start_time, elapsed) ==
    LET personality     == session.personality
        response        == ResponseTable[personality, user_message, technique]
        processing_time == elapsed
        end_time        == start_time + elapsed
    IN  [session EXCEPT
           !.conversation = @ \o << UserTurn(user_message, technique, end_time),
                                    AssistantTurn(response, processing_time, personality, end_time) >>,
           !.stats.total_messages = @ + 2,
           !.stats.total_processing_time = @ + processing_time]

\* a registry whose sessions all hold one and the same conversation list
ChatOnSession_SharedConversation(registry, session_id, user_message, technique, start_time, elapsed) ==
    [sid \in DOMAIN registry |->
        chat(registry[sid], user_message, technique, start_time, elapsed)]

\* chat(session_id, ...) on the registry: session = self.sessions[session_id]
\* is updated in place, the registry afterwards
ChatOnSession(registry, session_id, user_message, technique, start_time, elapsed) ==
    [registry EXCEPT ![session_id] = chat(@, user_message, technique, start_time, elapsed)]

\* the turns of a conversation with the given role
WithRole(conversation, role) ==
    SelectSeq(conversation, LAMBDA msg : msg.role = role)

\* M1ChatbotSystem.get_session_analysis: the counts of the analysis
SessionAnalysis(session) ==
    LET conversation       == session.conversation
        user_messages      == WithRole(conversation, "user")
        assistant_messages == WithRole(conversation, "assistant")
        techniques         == {user_messages[i].technique : i \in 1..Len(user_messages)}
    IN  [ total_messages      |-> Len(conversation),
          user_messages       |-> Len(user_messages),
          assistant_messages  |-> Len(assistant_messages),
          technique_frequency |->
              [technique \in techniques |->
                  Cardinality({i \in 1..Len(user_messages) :
                                  user_messages[i].technique = technique})] ]

\* the "response" entry of the dict chat returns
ChatResult(session, user_message, technique) ==
    ResponseTable[session.personality, user_message, technique]

----------------------------------------------------------------------------
(* advanced_llm.py: the fallback responder, the personality prompts and     *)
(* the model wrapper M1OptimizedLLM                                         *)

\* SmartFallbackGenerator.personality_responses: keyword -> response, in dict
\* order; personality_responses.get(personality, {}) for any other name
FallbackResponses(personality) ==
    CASE personality = "technical_expert" ->
           << [keyword |-> "memory",      block |-> "For Python API memory optimization, try:"],
              [keyword |-> "performance", block |-> "API performance issues often stem from:"],
              [keyword |-> "debug",       block |-> "Let's debug systematically:"],
              [keyword |-> "python",      block |-> "For Python optimization:"],
              [keyword |-> "api",         block |-> "API best practices:"] >>
      [] personality = "creative_partner" ->
           << [keyword |-> "story",     block |-> "For your story, consider:"],
              [keyword |-> "character", block |-> "Strong characters need:"],
              [keyword |-> "plot",      block |-> "Plot development tips:"],
              [keyword |-> "novel",     block |-> "Novel structure approach:"],
              [keyword |-> "write",     block |-> "Writing techniques:"] >>
      [] personality = "business_advisor" ->
           << [keyword |-> "pricing",  block |-> "SaaS pricing strategy:"],
              [keyword |-> "strategy", block |-> "Business strategy framework:"],
              [keyword |-> "growth",   block |-> "Growth strategies:"],
              [keyword |-> "saas",     block |-> "SaaS fundamentals:"],
              [keyword |-> "startup",  block |-> "Startup essentials:"] >>
      [] personality = "learning_tutor" ->
           << [keyword |-> "explain",    block |-> "Let me break this down step-by-step:"],
              [keyword |-> "learn",      block |-> "Effective learning strategies:"],
              [keyword |-> "understand", block |-> "To build understanding:"] >>
      [] personality = "helpful_assistant" ->
           << [keyword |-> "help",     block |-> "I'd be happy to help you! To provide the most useful assistance:"],
              [keyword |-> "question", block |-> "That's a great question! To give you the best answer:"],
              [keyword |-> "assist",   block |-> "I'm here to assist you! My approach is to:"] >>
      [] OTHER -> << >>

\* generic_responses.get(personality, generic_responses["helpful_assistant"])
GenericResponses(personality) ==
    CASE personality = "technical_expert" ->
           "I can help you with technical challenges! Could you provide more details about your specific issue, including any error messages or system specifications?"
      [] personality = "creative_partner" ->
           "That sounds like an exciting creative project! Let's brainstorm together."
      [] personality = "business_advisor" ->
           "Great business question! To provide the most relevant strategic advice, could you share more context about your industry, target market, and current business stage?"
      [] personality = "learning_tutor" ->
           "I'm here to help you learn! Could you tell me more about your current understanding level and what specific aspect you'd like me to explain?"
      [] OTHER ->
           "I'd be happy to help you with that! Could you provide a bit more detail about what you're looking for so I can give you the most useful response?"

\* SmartFallbackGenerator.generate_response
FallbackGenerateResponse(user_message, personality) ==
    LET scan == ScanResponses(FallbackResponses(personality), 1, Lower(user_message), "")
    IN  IF scan.matched THEN scan.response ELSE GenericResponses(personality)

\* the personalities the advanced server knows
AdvancedPersonalityIds ==
    <<"helpful_assistant", "technical_expert", "creative_partner", "business_advisor",
      "learning_tutor">>
AdvancedPersonalities == {AdvancedPersonalityIds[i] : i \in 1..Len(AdvancedPersonalityIds)}

\* the fallback text per input, computed once
FallbackTable ==
    [ personality \in AdvancedPersonalities, user_message \in Messages \cup SessionMessages |->
        FallbackGenerateResponse(user_message, personality) ]

\* self.fallback_generator.generate_response(user_message, personality)
Fallback(user_message, personality) == FallbackTable[personality, user_message]

\* AdvancedPromptEngineer._load_personality_prompts: the system prompts
\* (their opening words)
PersonalityPrompts ==
    [ technical_expert |-> "You are a senior software architect and technical lead",
      creative_partner |-> "You are an award-winning creative writing mentor",
      business_advisor |-> "You are a senior management consultant and business strategist" ]

\* the personalities a conversation handed to the model can have
LLMPersonalities == DOMAIN PersonalityPrompts

\* the messages handed to generate_response for one user message: the
\* personality's system prompt and the user turn
ConversationMessages(personality, user_message) ==
    << [role |-> "system", content |-> PersonalityPrompts[personality]],
       [role |-> "user",   content |-> user_message] >>

\* user_messages[-1].content if user_messages else ""
RECURSIVE LastUserMessage(_, _)
LastUserMessage(messages, i) ==
    IF i = 0 THEN ""
    ELSE IF messages[i].role = "user" THEN messages[i].content
    ELSE LastUserMessage(messages, i - 1)

\* the if / elif chain both fallback branches apply to a system message
PersonalityOfPrompt(content_lower) ==
    IF Contains("technical", content_lower) THEN "technical_expert"
    ELSE IF Contains("creative", content_lower) THEN "creative_partner"
    ELSE IF Contains("business", content_lower) THEN "business_advisor"
    ELSE "helpful_assistant"

\* the chain applied to each system prompt, computed once
SystemPromptPersonality ==
    [ content \in {PersonalityPrompts[p] : p \in DOMAIN PersonalityPrompts} |->
        PersonalityOfPrompt(Lower(content)) ]

\* the personality the load-failure branch works out: the first system
\* message that holds one of the three words decides
RECURSIVE PersonalityOnLoadFailure(_, _)
PersonalityOnLoadFailure(messages, i) ==
    IF i > Len(messages) THEN "helpful_assistant"
    ELSE IF /\ messages[i].role = "system"
            /\ SystemPromptPersonality[messages[i].content] # "helpful_assistant"
         THEN SystemPromptPersonality[messages[i].content]
         ELSE PersonalityOnLoadFailure(messages, i + 1)

\* the personality the short-text branch works out: the first system message
\* decides
RECURSIVE PersonalityOnShortText(_, _)
PersonalityOnShortText(messages, i) ==
    IF i > Len(messages) THEN "helpful_assistant"
    ELSE IF messages[i].role = "system"
         THEN SystemPromptPersonality[messages[i].content]
         ELSE PersonalityOnShortText(messages, i + 1)

\* the free_models list of load_model
free_models == <<"distilgpt2", "gpt2">>

\* M1OptimizedLLM.__init__, with the history of its calls: whether a
\* load_model call has returned False, the number of loads the most recent
\* generate_response attempted and the branch it took
NewLLM ==
    [ is_loaded |-> FALSE, model_name |-> "distilgpt2",
      load_failed |-> FALSE, load_attempts |-> 0, path |-> "none" ]

\* load_model when the models of the set loadable can be fetched and set up:
\* the first of free_models that loads is kept
load_model(m, loadable) ==
    IF m.is_loaded THEN m
    ELSE LET working == {i \in 1..Len(free_models) : free_models[i] \in loadable}
         IN  IF working = {}
             THEN [m EXCEPT !.is_loaded = FALSE, !.load_failed = TRUE]
             ELSE LET first == CHOOSE i \in working : \A j \in working : i <= j
                  IN  [m EXCEPT !.is_loaded = TRUE, !.model_name = free_models[first]]

\* text.strip() for blanks
RECURSIVE Strip(_)
Strip(s) ==
    IF Len(s) = 0 THEN s
    ELSE IF SubSeq(s, 1, 1) = " " THEN Strip(SubSeq(s, 2, Len(s)))
    ELSE IF SubSeq(s, Len(s), Len(s)) = " " THEN Strip(SubSeq(s, 1, Len(s) - 1))
    ELSE s

\* the length below which a generated text is replaced
MinResponseLength == 10

\* what model.generate and the decoding can come to: a text, or an exception
Raises == "<exception>"
GeneratedTexts == {"Sure, here is one way to do it.", "  Ok.  ", ""}
Generations == GeneratedTexts \cup {Raises}

\* M1OptimizedLLM.generate_response: the object afterwards and the text returned
generate_response(m, messages, loadable, generation) ==
    LET attempts          == IF m.is_loaded THEN 0 ELSE 1
        attempted         == [load_model(m, loadable) EXCEPT !.load_attempts = attempts]
        last_user_message == LastUserMessage(messages, Len(messages))
    IN  IF ~attempted.is_loaded
        THEN [ llm      |-> [attempted EXCEPT !.path = "fallback_system"],
               response |-> Fallback(last_user_message,
                                       PersonalityOnLoadFailure(messages, 1)) ]
        ELSE IF generation = Raises
        THEN [ llm      |-> [attempted EXCEPT !.path = "raised"],
               response |-> Fallback(last_user_message, "helpful_assistant") ]
        ELSE IF Len(Strip(generation)) < MinResponseLength
        THEN [ llm      |-> [attempted EXCEPT !.path = "too_short"],
               response |-> Fallback(last_user_message,
                                       PersonalityOnShortText(messages, 1)) ]
        ELSE [ llm      |-> [attempted EXCEPT !.path = "model"],
               response |-> generation ]

----------------------------------------------------------------------------
(* History bookkeeping *)

\* the outcome of a request, as the client sees it
Outcome(op, status, requested, session_id, personality, technique, message, response) ==
    [ op |-> op, status |-> status, requested |-> requested, session_id |-> session_id,
      personality |-> personality, technique |-> technique,
      message |-> message, response |-> response ]

\* the counters are followed in SpecTrack only; in the other specifications
\* the variable holds this value and track_request leaves it alone
NotObserved == [observed |-> FALSE]

\* request_stats of api_server.py at start-up
NewRequestStats == [total_requests |-> 0, total_response_time |-> 0, error_count |-> 0]

\* api_server.py track_request
track_request(stats, response_time, success) ==
    IF stats = NotObserved THEN stats
    ELSE [stats EXCEPT !.total_requests = @ + 1,
                       !.total_response_time = @ + response_time,
                       !.error_count = IF success THEN @ ELSE @ + 1]

\* the counters of AdvancedSessionManager at start-up; tracked is history: the
\* response times of all track_request calls, in order
NewCounters ==
    [request_counter |-> 0, response_times |-> <<>>, error_counter |-> 0, tracked |-> <<>>]

\* the last n entries of a list: list[-n:]
LastN(list, n) ==
    IF Len(list) > n THEN SubSeq(list, Len(list) - n + 1, Len(list)) ELSE list

\* a track_request that keeps the first response times and drops the new ones
adv_track_request_KeepsFirst(manager, response_time, success) ==
    IF manager = NotObserved THEN manager
    ELSE LET appended == Append(manager.response_times, response_time)
         IN  [manager EXCEPT
                !.request_counter = @ + 1,
                !.response_times = IF Len(appended) > ResponseWindow
                                   THEN SubSeq(appended, 1, ResponseWindow)
                                   ELSE appended,
                !.error_counter = IF success THEN @ ELSE @ + 1,
                !.tracked = Append(@, response_time)]

\* src/api_server.py track_request
adv_track_request(manager, response_time, success) ==
    IF manager = NotObserved THEN manager
    ELSE LET appended == Append(manager.response_times, response_time)
         IN  [manager EXCEPT
                !.request_counter = @ + 1,
                !.response_times = IF Len(appended) > ResponseWindow
                                   THEN LastN(appended, ResponseWindow)
                                   ELSE appended,
                !.error_counter = IF success THEN @ ELSE @ + 1,
                !.tracked = Append(@, response_time)]

\* sum(list)
RECURSIVE SumOf(_)
SumOf(list) == IF list = <<>> THEN 0 ELSE Head(list) + SumOf(Tail(list))

\* AdvancedSessionManager.get_stats: the reported average response time, in
\* whole clock ticks
avg_response_time(manager) ==
    IF manager.response_times # <<>>
    THEN SumOf(manager.response_times) \div Len(manager.response_times)
    ELSE 0

\* the number of requests tracked so far
Tracked(m) ==
    IF m = NotObserved THEN 0
    ELSE IF "request_counter" \in DOMAIN m THEN m.request_counter ELSE m.total_requests

\* the guard that keeps the counters within the model's bound
Trackable == Tracked(metrics) < MaxTracked

NoOutcome == Outcome("none", 0, NoSessionId, NoSessionId, "", "", "", "")

----------------------------------------------------------------------------
(* api_server.py: the handlers over M1ChatbotSystem *)

Basic == server = "basic"

AdvUnchanged == UNCHANGED <<server, session_metadata, cleanup, llm, metrics, loading, dashboard>>

\* POST /sessions
CreateSessionReq(personality) ==
    /\ Basic
    /\ sessions' = create_session(sessions, personality, now)
    /\ issued' = issued \cup {SessionId(now)}
    /\ last' = Outcome("create_session", 200, NoSessionId, SessionId(now),
                       personality, "", "", "")
    /\ UNCHANGED <<now, removed>>
    /\ AdvUnchanged

\* the handler of POST /chat
ChatHandler(requested, message, personality, technique, elapsed) ==
    /\ Basic
    /\ now + elapsed <= MaxTime
    /\ IF requested = NoSessionId
       THEN \* auto-create, then chat
            LET session_id == SessionId(now)
                created    == create_session(sessions, personality, now)
                session    == created[session_id]
            IN  /\ sessions' = Put(created, session_id,
                                   chat(session, message, technique, now, elapsed))
                /\ issued' = issued \cup {session_id}
                /\ last' = Outcome("chat", 200, requested, session_id, session.personality,
                                   technique, message, ChatResult(session, message, technique))
                /\ now' = now + elapsed
                /\ Trackable
                /\ metrics' = track_request(metrics, elapsed, TRUE)
       ELSE IF requested \notin Live
       THEN \* HTTPException is raised again, nothing is tracked
            /\ last' = Outcome("chat", 404, requested, NoSessionId, "", "", "", "")
            /\ UNCHANGED <<sessions, issued, now, metrics>>
       ELSE /\ Len(sessions[requested].conversation) < 2 * MaxExchanges
            /\ Trackable
            /\ metrics' = track_request(metrics, elapsed, TRUE)
            /\ sessions' = ChatOnSession(sessions, requested, message, technique,
                                         now, elapsed)
            /\ last' = Outcome("chat", 200, requested, requested,
                               sessions[requested].personality, technique, message,
                               ChatResult(sessions[requested], message, technique))
            /\ now' = now + elapsed
            /\ UNCHANGED issued
    /\ UNCHANGED <<removed, server, session_metadata, cleanup, llm, loading>>

\* POST /chat
ChatReq(requested, message, personality, technique, elapsed) ==
    /\ ChatHandler(requested, message, personality, technique, elapsed)
    /\ UNCHANGED dashboard

\* an analysis handler that opens a session under an id it does not know
AnalysisReq_CreatesMissing(requested) ==
    /\ Basic
    /\ sessions' = IF requested \in Live THEN sessions
                   ELSE Put(sessions, requested, NewSession("technical_expert", now))
    /\ last' = Outcome("analysis", 200, requested, requested, "technical_expert", "", "", "")
    /\ UNCHANGED <<now, issued, removed>>
    /\ AdvUnchanged

\* GET /session/{id}/analysis
AnalysisReq(requested) ==
    /\ Basic
    /\ last' = IF requested \in Live
               THEN Outcome("analysis", 200, requested, requested,
                            sessions[requested].personality, "", "", "")
               ELSE Outcome("analysis", 404, requested, NoSessionId, "", "", "", "")
    /\ UNCHANGED <<now, sessions, issued, removed>>
    /\ AdvUnchanged

\* DELETE /session/{id}
DeleteSessionReq(requested) ==
    /\ Basic
    /\ IF requested \notin Live
       THEN /\ last' = Outcome("delete", 404, requested, NoSessionId, "", "", "", "")
            /\ UNCHANGED <<sessions, removed>>
       ELSE /\ sessions' = Drop(sessions, requested)
            /\ removed' = removed \cup {requested}
            /\ last' = Outcome("delete", 200, requested, requested, "", "", "", "")
    /\ UNCHANGED <<now, issued>>
    /\ AdvUnchanged

\* DELETE /sessions
ClearAllSessionsReq ==
    /\ Basic
    /\ sessions' = EmptyDict
    /\ removed' = removed \cup Live
    /\ last' = Outcome("clear_all", 200, NoSessionId, NoSessionId, "", "", "", "")
    /\ UNCHANGED <<now, issued>>
    /\ AdvUnchanged

\* POST /chat/compare: one temporary session per personality, created at
\* the clock readings at[1] <= at[2] <= at[3], chatted with once and deleted
RECURSIVE CompareLoop(_, _, _, _, _)
CompareLoop(registry, i, at, message, technique) ==
    IF i > Len(PersonalityIds) THEN registry
    ELSE LET temp_session_id == SessionId(at[i])
             created == create_session(registry, PersonalityIds[i], at[i])
             chatted == Put(created, temp_session_id,
                            chat(created[temp_session_id], message, technique, at[i], 0))
         IN  CompareLoop(Drop(chatted, temp_session_id), i + 1, at, message, technique)

ComparePersonalitiesReq(message, technique, at) ==
    /\ Basic
    /\ now <= at[1] /\ at[1] <= at[2] /\ at[2] <= at[3]
    /\ sessions' = CompareLoop(sessions, 1, at, message, technique)
    /\ issued' = issued \cup {SessionId(at[i]) : i \in 1..3}
    /\ removed' = removed \cup {SessionId(at[i]) : i \in 1..3}
    /\ now' = at[3]
    /\ last' = Outcome("compare", 200, NoSessionId, NoSessionId, "", technique, message, "")
    /\ AdvUnchanged

\* the passing of time
Tick ==
    /\ server \in {"basic", "advanced"}
    /\ now < MaxTime
    /\ now' = now + 1
    /\ UNCHANGED <<server, sessions, session_metadata, cleanup, last, issued, removed, llm, metrics, loading, dashboard>>

----------------------------------------------------------------------------
(* src/api_server.py: AdvancedSessionManager and its handlers *)

Advanced == server = "advanced"

\* AdvancedChatbot.session_id: an id derived from the current time and a hash
\* of a timestamp string
AdvancedSessionId(t) == SessionId(t)

\* AdvancedChatbot(personality, llm_config): the chatbot a session holds
AdvancedChatbot(personality) == [personality |-> personality, messages |-> <<>>]

\* the metadata record create_session stores
NewMetadata(personality, t) ==
    [ created_at |-> t, last_activity |-> t, personality |-> personality,
      request_count |-> 0 ]

\* the test of _cleanup_old_sessions on one metadata record
IsExpired(metadata, t) == t - metadata.last_activity > session_timeout

\* _cleanup_old_sessions run without interruption at clock reading t
ExpiredSessions(all_metadata, t) ==
    {sid \in DOMAIN all_metadata : IsExpired(all_metadata[sid], t)}

DropAll(d, keys) == [x \in DOMAIN d \ keys |-> d[x]]

Sleeping == [pc |-> "sleep", now |-> 0, size |-> 0, visited |-> {}, expired |-> {}]

\* AdvancedSessionManager.create_session at clock reading t on a manager
\* [sessions, session_metadata, removed]: the manager afterwards and the id
adv_create_session(manager, personality, t) ==
    LET sweep      == Cardinality(DOMAIN manager.sessions) >= max_sessions
        expired    == IF sweep THEN ExpiredSessions(manager.session_metadata, t) ELSE {}
        session_id == AdvancedSessionId(t)
    IN  [ sessions         |-> Put(DropAll(manager.sessions, expired), session_id,
                                   AdvancedChatbot(personality)),
          session_metadata |-> Put(DropAll(manager.session_metadata, expired), session_id,
                                   NewMetadata(personality, t)),
          removed          |-> manager.removed \cup (expired \cap DOMAIN manager.sessions),
          session_id       |-> session_id ]

\* the manager of the current state
Manager == [sessions |-> sessions, session_metadata |-> session_metadata, removed |-> removed]

\* POST /sessions
AdvCreateSessionReq(personality) ==
    /\ Advanced
    /\ LET created == adv_create_session(Manager, personality, now)
       IN  /\ sessions' = created.sessions
           /\ session_metadata' = created.session_metadata
           /\ removed' = created.removed
           /\ issued' = issued \cup {created.session_id}
           /\ last' = Outcome("create_session", 200, NoSessionId, created.session_id,
                              personality, "", "", "")
    /\ UNCHANGED <<server, now, cleanup, llm, metrics, loading, dashboard>>

\* AdvancedSessionManager.get_session on an id that is in self.sessions
get_session(all_metadata, session_id, t) ==
    [all_metadata EXCEPT ![session_id].last_activity = t,
                         ![session_id].request_count = @ + 1]

\* AdvancedChatbot.chat: the response is worked out first, then the user turn
\* and the assistant turn are appended to the history
AdvancedChat(chatbot, user_message) ==
    [chatbot EXCEPT
       !.messages = @ \o << [role |-> "user", content |-> user_message],
                            [role |-> "assistant",
                             content |-> Fallback(user_message, chatbot.personality)] >>]

\* the ways a chatbot.chat call can end
ChatEnds == {"returns", "raises"}

\* the handler of POST /chat
AdvChatHandler(requested, message, personality, technique, ends) ==
    /\ Advanced
    /\ IF requested = NoSessionId
       THEN \* create_session, get_session, chat
            LET created    == adv_create_session(Manager, personality, now)
                session_id == created.session_id
                chatbot    == created.sessions[session_id]
            IN  /\ MaxRequests >= 1
                /\ Trackable
                /\ metrics' = adv_track_request(metrics, 0, ends = "returns")
                /\ session_metadata' = get_session(created.session_metadata, session_id, now)
                /\ removed' = created.removed
                /\ issued' = issued \cup {session_id}
                /\ IF ends = "raises"
                   THEN /\ sessions' = created.sessions
                        /\ last' = Outcome("chat", 500, requested, session_id, personality,
                                           technique, message, "")
                   ELSE /\ sessions' = Put(created.sessions, session_id,
                                           AdvancedChat(chatbot, message))
                        /\ last' = Outcome("chat", 200, requested, session_id, personality,
                                           technique, message,
                                           Fallback(message, chatbot.personality))
       ELSE IF requested \notin Live
       THEN \* HTTPException is raised again, nothing is tracked
            /\ last' = Outcome("chat", 404, requested, NoSessionId, "", "", "", "")
            /\ UNCHANGED <<sessions, session_metadata, issued, removed, metrics>>
       ELSE IF requested \notin DOMAIN session_metadata
       THEN \* KeyError in get_session, answered 500 by the handler
            /\ last' = Outcome("chat", 500, requested, requested, "", "", "", "")
            /\ Trackable
            /\ metrics' = adv_track_request(metrics, 0, FALSE)
            /\ UNCHANGED <<sessions, session_metadata, issued, removed>>
       ELSE /\ session_metadata[requested].request_count < MaxRequests
            /\ Len(sessions[requested].messages) < 2 * MaxExchanges
            /\ session_metadata' = get_session(session_metadata, requested, now)
            /\ Trackable
            /\ metrics' = adv_track_request(metrics, 0, ends = "returns")
            /\ IF ends = "raises"
               THEN /\ last' = Outcome("chat", 500, requested, requested, personality,
                                       technique, message, "")
                    /\ UNCHANGED sessions
               ELSE /\ sessions' = [sessions EXCEPT ![requested] = AdvancedChat(@, message)]
                    /\ last' = Outcome("chat", 200, requested, requested, personality,
                                       technique, message,
                                       Fallback(message, sessions[requested].personality))
            /\ UNCHANGED <<issued, removed>>
    /\ UNCHANGED <<server, now, cleanup, llm, loading>>

\* POST /chat
AdvChatReq(requested, message, personality, technique, ends) ==
    /\ AdvChatHandler(requested, message, personality, technique, ends)
    /\ UNCHANGED dashboard

\* POST /chat/compare: per personality a session is created at the clock
\* reading at[i], looked up and chatted with; it is left in the registry
RECURSIVE AdvCompareLoop(_, _, _, _)
AdvCompareLoop(manager, i, at, message) ==
    IF i > Len(AdvancedPersonalityIds) THEN manager
    ELSE LET created         == adv_create_session(manager, AdvancedPersonalityIds[i], at[i])
             temp_session_id == created.session_id
             looked_up       == get_session(created.session_metadata, temp_session_id, at[i])
             chatted         == Put(created.sessions, temp_session_id,
                                    AdvancedChat(created.sessions[temp_session_id], message))
         IN  AdvCompareLoop([sessions |-> chatted, session_metadata |-> looked_up,
                             removed |-> created.removed], i + 1, at, message)

AdvComparePersonalitiesReq(message, technique, at) ==
    /\ Advanced
    /\ MaxRequests >= 1
    /\ now <= at[1]
    /\ \A i \in 1..(Len(AdvancedPersonalityIds) - 1) : at[i] <= at[i + 1]
    /\ LET compared == AdvCompareLoop(Manager, 1, at, message)
       IN  /\ sessions' = compared.sessions
           /\ session_metadata' = compared.session_metadata
           /\ removed' = compared.removed
    /\ issued' = issued \cup {AdvancedSessionId(at[i]) : i \in 1..Len(AdvancedPersonalityIds)}
    /\ now' = at[Len(AdvancedPersonalityIds)]
    /\ last' = Outcome("compare", 200, NoSessionId, NoSessionId, "", technique, message, "")
    /\ UNCHANGED <<server, cleanup, llm, metrics, loading, dashboard>>

\* GET /session/{id}/analysis
AdvAnalysisReq(requested) ==
    /\ Advanced
    /\ IF requested \notin Live
       THEN /\ last' = Outcome("analysis", 404, requested, NoSessionId, "", "", "", "")
            /\ UNCHANGED session_metadata
       ELSE IF requested \notin DOMAIN session_metadata
       THEN \* KeyError in get_session, not caught by the handler
            /\ last' = Outcome("analysis", 500, requested, NoSessionId, "", "", "", "")
            /\ UNCHANGED session_metadata
       ELSE /\ session_metadata[requested].request_count < MaxRequests
            /\ session_metadata' = get_session(session_metadata, requested, now)
            /\ last' = Outcome("analysis", 200, requested, requested,
                               sessions[requested].personality, "", "", "")
    /\ UNCHANGED <<server, now, sessions, cleanup, issued, removed, llm, metrics, loading, dashboard>>

\* DELETE /session/{id}
AdvDeleteSessionReq(requested) ==
    /\ Advanced
    /\ IF requested \notin Live
       THEN /\ last' = Outcome("delete", 404, requested, NoSessionId, "", "", "", "")
            /\ UNCHANGED <<sessions, session_metadata, removed>>
       ELSE /\ sessions' = Drop(sessions, requested)
            /\ session_metadata' = Drop(session_metadata, requested)
            /\ removed' = removed \cup {requested}
            /\ last' = Outcome("delete", 200, requested, requested, "", "", "", "")
    /\ UNCHANGED <<server, now, cleanup, issued, llm, metrics, loading, dashboard>>

\* a clear-all that forgets the metadata map
AdvClearAllSessionsReq_KeepsMetadata ==
    /\ Advanced
    /\ sessions' = EmptyDict
    /\ removed' = removed \cup Live
    /\ last' = Outcome("clear_all", 200, NoSessionId, NoSessionId, "", "", "", "")
    /\ UNCHANGED <<server, now, cleanup, issued, session_metadata, llm, metrics, loading, dashboard>>

\* DELETE /sessions
AdvClearAllSessionsReq ==
    /\ Advanced
    /\ sessions' = EmptyDict
    /\ session_metadata' = EmptyDict
    /\ removed' = removed \cup Live
    /\ last' = Outcome("clear_all", 200, NoSessionId, NoSessionId, "", "", "", "")
    /\ UNCHANGED <<server, now, cleanup, issued, llm, metrics, loading, dashboard>>

----------------------------------------------------------------------------
(* The cleanup thread: _periodic_cleanup running _cleanup_old_sessions,     *)
(* one step at a time, with the handlers running between its steps          *)

\* time.sleep returns; now = datetime.now(); the iterator over
\* session_metadata.items() is created
CleanupWake ==
    /\ Advanced
    /\ cleanup.pc = "sleep"
    /\ cleanup' = [pc |-> "scan", now |-> now,
                   size |-> Cardinality(DOMAIN session_metadata),
                   visited |-> {}, expired |-> {}]
    /\ UNCHANGED <<server, now, sessions, session_metadata, last, issued, removed, llm, metrics, loading, dashboard>>

\* one round of the first for loop: the dict iterator raises RuntimeError when
\* the dict changed size (the thread dies), else yields an entry not yet seen
\* or ends the loop
CleanupScan ==
    /\ Advanced
    /\ cleanup.pc = "scan"
    /\ LET rest == DOMAIN session_metadata \ cleanup.visited
       IN  IF Cardinality(DOMAIN session_metadata) # cleanup.size
           THEN cleanup' = [Sleeping EXCEPT !.pc = "dead"]
           ELSE IF rest = {}
           THEN cleanup' = [cleanup EXCEPT !.pc = "pop_sessions", !.visited = {}, !.size = 0]
           ELSE LET session_id == CHOOSE sid \in rest : TRUE
                IN  cleanup' = [cleanup EXCEPT
                       !.visited = @ \cup {session_id},
                       !.expired = IF IsExpired(session_metadata[session_id], cleanup.now)
                                   THEN @ \cup {session_id} ELSE @]
    /\ UNCHANGED <<server, now, sessions, session_metadata, last, issued, removed, llm, metrics, loading, dashboard>>

\* the second for loop: self.sessions.pop(session_id, None) ...
CleanupPopSession ==
    /\ Advanced
    /\ cleanup.pc = "pop_sessions"
    /\ IF cleanup.expired = {}
       THEN /\ cleanup' = Sleeping
            /\ UNCHANGED <<sessions, removed>>
       ELSE LET session_id == CHOOSE sid \in cleanup.expired : TRUE
            IN  /\ sessions' = DropAll(sessions, {session_id})
                /\ removed' = removed \cup ({session_id} \cap Live)
                /\ cleanup' = [cleanup EXCEPT !.pc = "pop_metadata"]
    /\ UNCHANGED <<server, now, session_metadata, last, issued, llm, metrics, loading, dashboard>>

\* ... and self.session_metadata.pop(session_id, None)
CleanupPopMetadata ==
    /\ Advanced
    /\ cleanup.pc = "pop_metadata"
    /\ LET session_id == CHOOSE sid \in cleanup.expired : TRUE
       IN  /\ session_metadata' = DropAll(session_metadata, {session_id})
           /\ cleanup' = [cleanup EXCEPT !.pc = "pop_sessions",
                                         !.expired = @ \ {session_id}]
    /\ UNCHANGED <<server, now, sessions, last, issued, removed, llm, metrics, loading, dashboard>>

----------------------------------------------------------------------------
Init ==
    /\ server \in {"basic", "advanced"}
    /\ now = 0
    /\ sessions = EmptyDict
    /\ session_metadata = EmptyDict
    /\ cleanup = Sleeping
    /\ last = NoOutcome
    /\ issued = {}
    /\ removed = {}
    /\ llm = NewLLM
    /\ metrics = NotObserved
    /\ loading = NotObserved
    /\ dashboard = NotObserved

Readings == {at \in [1..3 -> 0..MaxTime] : at[1] <= at[2] /\ at[2] <= at[3]}

AdvReadings ==
    {at \in [1..Len(AdvancedPersonalityIds) -> 0..MaxTime] :
        \A i \in 1..(Len(AdvancedPersonalityIds) - 1) : at[i] <= at[i + 1]}

Next ==
    \/ Tick
    \/ \E personality \in SessionPersonalities : CreateSessionReq(personality)
    \/ \E requested \in RequestIds \cup {NoSessionId}, message \in SessionMessages,
          personality \in SessionPersonalities, technique \in SessionTechniques,
          elapsed \in 0..MaxElapsed :
            ChatReq(requested, message, personality, technique, elapsed)
    \/ \E requested \in RequestIds : AnalysisReq(requested)
    \/ \E requested \in RequestIds : DeleteSessionReq(requested)
    \/ ClearAllSessionsReq
    \/ \E message \in SessionMessages, technique \in SessionTechniques, at \in Readings :
            ComparePersonalitiesReq(message, technique, at)
    \/ \E personality \in SessionPersonalities : AdvCreateSessionReq(personality)
    \/ \E requested \in RequestIds : AdvAnalysisReq(requested)
    \/ \E requested \in RequestIds : AdvDeleteSessionReq(requested)
    \/ AdvClearAllSessionsReq
    \/ CleanupWake
    \/ CleanupScan
    \/ CleanupPopSession
    \/ CleanupPopMetadata

Spec == Init /\ [][Next]_vars

\* the cleanup thread is scheduled fairly: a step it can take is taken in the
\* end (time.sleep returns, the loops go on), and the clock moves on
CleanupFairness ==
    /\ WF_vars(CleanupWake)
    /\ WF_vars(CleanupScan)
    /\ WF_vars(CleanupPopSession)
    /\ WF_vars(CleanupPopMetadata)
    /\ WF_vars(Tick)

SpecLive == Init /\ [][Next]_vars /\ CleanupFairness

----------------------------------------------------------------------------
(* The request surface of both servers, with cleanup passes that run        *)
(* between requests: the session and chat handlers, the clock, and          *)
(* _cleanup_old_sessions as one uninterrupted step                          *)

\* one pass of the cleanup thread that no request handler interrupts
CleanupPass ==
    /\ Advanced
    /\ cleanup.pc = "sleep"
    /\ LET expired == ExpiredSessions(session_metadata, now)
       IN  /\ sessions' = DropAll(sessions, expired)
           /\ session_metadata' = DropAll(session_metadata, expired)
           /\ removed' = removed \cup (expired \cap Live)
    /\ UNCHANGED <<server, now, cleanup, last, issued, llm, metrics, loading, dashboard>>

\* the clock readings of one request that starts now and during which the
\* clock moves on by one tick at most
DuringRequest(readings) ==
    {at \in readings : at[1] = now /\ at[Len(at)] <= now + 1}

NextServe ==
    \/ Tick
    \/ \E personality \in SessionPersonalities : CreateSessionReq(personality)
    \/ \E requested \in RequestIds \cup {NoSessionId}, message \in SessionMessages,
          personality \in SessionPersonalities, technique \in SessionTechniques,
          elapsed \in 0..MaxElapsed :
            ChatReq(requested, message, personality, technique, elapsed)
    \/ \E requested \in RequestIds : AnalysisReq(requested)
    \/ \E requested \in RequestIds : DeleteSessionReq(requested)
    \/ ClearAllSessionsReq
    \/ \E personality \in SessionPersonalities : AdvCreateSessionReq(personality)
    \/ \E requested \in RequestIds \cup {NoSessionId}, message \in SessionMessages,
          personality \in SessionPersonalities, technique \in SessionTechniques,
          ends \in ChatEnds :
            AdvChatReq(requested, message, personality, technique, ends)
    \/ \E requested \in RequestIds : AdvAnalysisReq(requested)
    \/ \E requested \in RequestIds : AdvDeleteSessionReq(requested)
    \/ AdvClearAllSessionsReq
    \/ CleanupPass

SpecServe == Init /\ [][NextServe]_vars

----------------------------------------------------------------------------
(* The compare endpoints of both servers, among session creations, chats    *)
(* and deletions                                                            *)

NextCompare ==
    \/ Tick
    \/ \E personality \in SessionPersonalities : CreateSessionReq(personality)
    \/ \E requested \in RequestIds, message \in SessionMessages,
          personality \in SessionPersonalities, technique \in SessionTechniques :
            ChatReq(requested, message, personality, technique, 0)
    \/ \E requested \in RequestIds : DeleteSessionReq(requested)
    \/ \E message \in SessionMessages, technique \in SessionTechniques,
          at \in DuringRequest(Readings) :
            ComparePersonalitiesReq(message, technique, at)
    \/ \E personality \in SessionPersonalities : AdvCreateSessionReq(personality)
    \/ \E requested \in RequestIds : AdvDeleteSessionReq(requested)
    \/ \E message \in SessionMessages, technique \in SessionTechniques,
          at \in DuringRequest(AdvReadings) :
            AdvComparePersonalitiesReq(message, technique, at)

SpecCompare == Init /\ [][NextCompare]_vars

----------------------------------------------------------------------------
(* The request counters: the chat endpoints of both servers with their      *)
(* counters followed, and track_request of src/api_server.py applied to     *)
(* drawn response times and outcomes                                        *)

InitTrack ==
    /\ server \in {"basic", "advanced", "tracker"}
    /\ now = 0
    /\ sessions = EmptyDict
    /\ session_metadata = EmptyDict
    /\ cleanup = Sleeping
    /\ last = NoOutcome
    /\ issued = {}
    /\ removed = {}
    /\ llm = NewLLM
    /\ metrics = IF server = "basic" THEN NewRequestStats ELSE NewCounters
    /\ loading = NotObserved
    /\ dashboard = NotObserved

\* track_request(response_time, success) run as a background task
TrackRequest(response_time, success) ==
    /\ server = "tracker"
    /\ Trackable
    /\ metrics' = adv_track_request(metrics, response_time, success)
    /\ last' = Outcome("track", IF success THEN 200 ELSE 500, NoSessionId, NoSessionId,
                       "", "", "", "")
    /\ UNCHANGED <<server, now, sessions, session_metadata, cleanup, issued, removed, llm,
                   loading, dashboard>>

NextTrack ==
    \/ \E personality \in SessionPersonalities : CreateSessionReq(personality)
    \/ \E requested \in RequestIds \cup {NoSessionId}, message \in SessionMessages,
          personality \in SessionPersonalities, technique \in SessionTechniques,
          elapsed \in 0..MaxElapsed :
            ChatReq(requested, message, personality, technique, elapsed)
    \/ \E personality \in SessionPersonalities : AdvCreateSessionReq(personality)
    \/ \E requested \in RequestIds \cup {NoSessionId}, message \in SessionMessages,
          personality \in SessionPersonalities, technique \in SessionTechniques,
          ends \in ChatEnds :
            AdvChatReq(requested, message, personality, technique, ends)
    \/ \E response_time \in 0..MaxElapsed, success \in BOOLEAN :
            TrackRequest(response_time, success)

SpecTrack == InitTrack /\ [][NextTrack]_vars

----------------------------------------------------------------------------
(* The responder on its own: M1ChatbotSystem.chat applied once to a drawn   *)
(* session (any personality, with or without an earlier exchange), message  *)
(* and technique                                                            *)

ProbeId == SessionId(0)

\* the sessions the probe is applied to
ProbeSessions ==
    {NewSession(personality, 0) : personality \in Personalities}
    \cup {chat(NewSession(personality, 0), message, technique, 0, 0) :
            personality \in Personalities, message \in SessionMessages,
            technique \in SessionTechniques}

InitRespond ==
    /\ server = "responder"
    /\ now = 0
    /\ \E session \in ProbeSessions : sessions = Put(EmptyDict, ProbeId, session)
    /\ \E message \in Messages, technique \in Techniques :
          last = Outcome("request", 0, ProbeId, NoSessionId, "", technique, message, "")
    /\ session_metadata = EmptyDict
    /\ cleanup = Sleeping
    /\ issued = {ProbeId}
    /\ removed = {}
    /\ llm = NewLLM
    /\ metrics = NotObserved
    /\ loading = NotObserved
    /\ dashboard = NotObserved

\* chatbot_system.chat(session_id, user_message, technique) and its result
Respond ==
    /\ server = "responder"
    /\ last.op = "request"
    /\ sessions' = [sessions EXCEPT
                      ![ProbeId] = chat(@, last.message, last.technique, now, 0)]
    /\ last' = Outcome("chat", 200, ProbeId, ProbeId, sessions[ProbeId].personality,
                       last.technique, last.message,
                       ChatResult(sessions[ProbeId], last.message, last.technique))
    /\ UNCHANGED <<server, now, session_metadata, cleanup, issued, removed, llm, metrics, loading, dashboard>>

NextRespond == Respond

SpecRespond == InitRespond /\ [][NextRespond]_vars

----------------------------------------------------------------------------
(* The model wrapper on its own: one M1OptimizedLLM object answering a      *)
(* sequence of generate_response calls, each with a drawn conversation and  *)
(* a drawn behaviour of the model library                                   *)

InitGenerate ==
    /\ server = "llm"
    /\ now = 0
    /\ sessions = EmptyDict
    /\ session_metadata = EmptyDict
    /\ cleanup = Sleeping
    /\ last = NoOutcome
    /\ issued = {}
    /\ removed = {}
    /\ llm = NewLLM
    /\ metrics = NotObserved
    /\ loading = NotObserved
    /\ dashboard = NotObserved

\* llm.generate_response(messages) for a conversation of the given
\* personality whose last user turn is message, when the models of loadable
\* can be loaded and generation comes to the given text or exception
GenerateReq(personality, message, loadable, generation) ==
    /\ server = "llm"
    /\ LET result == generate_response(llm, ConversationMessages(personality, message),
                                       loadable, generation)
       IN  /\ llm' = result.llm
           /\ last' = Outcome("generate", 200, NoSessionId, NoSessionId, personality, "",
                              message, result.response)
    /\ UNCHANGED <<server, now, sessions, session_metadata, cleanup, issued, removed,
                   metrics, loading, dashboard>>

\* the last user turns of the conversations handed to the model
GenerateMessages == Vocabulary \cup SessionMessages

NextGenerate ==
    \E personality \in LLMPersonalities, message \in GenerateMessages,
       loadable \in SUBSET {free_models[i] : i \in 1..Len(free_models)},
       generation \in Generations :
          GenerateReq(personality, message, loadable, generation)

SpecGenerate == InitGenerate /\ [][NextGenerate]_vars

----------------------------------------------------------------------------
(* Concurrent callers of one M1OptimizedLLM: every thread runs              *)
(* generate_response, whose load_model works under model_lock               *)

\* the threads that call generate_response on the one object
Callers == 1..3
NoThread == 0

\* a thread outside generate_response; tried is history: the candidates its
\* latest load_model call tried, returned is what that call returned
Outside == [pc |-> "outside", candidate |-> 0, tried |-> <<>>, returned |-> "none"]

\* M1OptimizedLLM.__init__: model_lock is free; loads is history: the number
\* of times a candidate was loaded and set up (2 stands for "more than once")
NewLoading == [lock |-> NoThread, loads |-> 0, thread |-> [t \in Callers |-> Outside]]

\* a load_model that enters without taking model_lock
model_lock_free_Unlocked(holder) == TRUE

\* threading.Lock: the lock can be taken when no thread holds it
model_lock_free(holder) == holder = NoThread

InitLoad ==
    /\ server = "loader"
    /\ now = 0
    /\ sessions = EmptyDict
    /\ session_metadata = EmptyDict
    /\ cleanup = Sleeping
    /\ last = NoOutcome
    /\ issued = {}
    /\ removed = {}
    /\ llm = NewLLM
    /\ metrics = NotObserved
    /\ loading = NewLoading
    /\ dashboard = NotObserved

LoadUnchanged ==
    UNCHANGED <<server, now, sessions, session_metadata, cleanup, last, issued, removed,
                metrics, dashboard>>

\* generate_response is entered: is_loaded is read without the lock, and
\* load_model is called when it is false
GenerateCall(t) ==
    /\ server = "loader"
    /\ loading.thread[t].pc = "outside"
    /\ loading' = [loading EXCEPT
                      !.thread[t] = [Outside EXCEPT
                                        !.pc = IF llm.is_loaded THEN "generate" ELSE "acquire"]]
    /\ UNCHANGED llm
    /\ LoadUnchanged

\* load_model: with self.model_lock
LoadAcquire(t) ==
    /\ server = "loader"
    /\ loading.thread[t].pc = "acquire"
    /\ model_lock_free(loading.lock)
    /\ loading' = [loading EXCEPT !.lock = t, !.thread[t].pc = "locked"]
    /\ UNCHANGED llm
    /\ LoadUnchanged

\* load_model under the lock: return True when is_loaded, else start on the
\* candidates; an exception before the candidate loop (cache directory,
\* memory statistics) sets is_loaded = False and returns False
LoadCheck(t, critical) ==
    /\ server = "loader"
    /\ loading.thread[t].pc = "locked"
    /\ IF llm.is_loaded
       THEN /\ loading' = [loading EXCEPT !.lock = NoThread,
                                          !.thread[t].pc = "generate",
                                          !.thread[t].returned = "True"]
            /\ UNCHANGED llm
       ELSE IF critical
       THEN /\ loading' = [loading EXCEPT !.lock = NoThread,
                                          !.thread[t].pc = "fallback",
                                          !.thread[t].returned = "False"]
            /\ llm' = [llm EXCEPT !.is_loaded = FALSE, !.load_failed = TRUE]
       ELSE /\ loading' = [loading EXCEPT !.thread[t].pc = "try",
                                          !.thread[t].candidate = 1]
            /\ UNCHANGED llm
    /\ LoadUnchanged

\* one round of the loop over free_models: the candidate is fetched and set
\* up (works), which ends the loop, or an exception moves on to the next
LoadTry(t, works) ==
    /\ server = "loader"
    /\ loading.thread[t].pc = "try"
    /\ LET i == loading.thread[t].candidate
       IN  /\ loading' = [loading EXCEPT
                             !.loads = IF works /\ @ < 2 THEN @ + 1 ELSE @,
                             !.thread[t].tried = Append(@, free_models[i]),
                             !.thread[t].candidate = IF works \/ i = Len(free_models)
                                                     THEN @ ELSE @ + 1,
                             !.thread[t].pc = IF works THEN "loaded"
                                              ELSE IF i = Len(free_models) THEN "exhausted"
                                              ELSE "try"]
           /\ llm' = IF works THEN [llm EXCEPT !.model_name = free_models[i]] ELSE llm
    /\ LoadUnchanged

\* the end of load_model: is_loaded is set and the lock is released
LoadFinish(t) ==
    /\ server = "loader"
    /\ loading.thread[t].pc \in {"loaded", "exhausted"}
    /\ LET model_loaded == loading.thread[t].pc = "loaded"
       IN  /\ llm' = [llm EXCEPT !.is_loaded = model_loaded,
                                 !.load_failed = @ \/ ~model_loaded]
           /\ loading' = [loading EXCEPT
                             !.lock = NoThread,
                             !.thread[t].pc = IF model_loaded THEN "generate" ELSE "fallback",
                             !.thread[t].returned = IF model_loaded THEN "True" ELSE "False"]
    /\ LoadUnchanged

\* the rest of generate_response: the fallback answer after a failed load,
\* else the generation, which ends in one of its three ways
GenerateReturn(t, path) ==
    /\ server = "loader"
    /\ \/ loading.thread[t].pc = "fallback" /\ path = "fallback_system"
       \/ loading.thread[t].pc = "generate" /\ path # "fallback_system"
    /\ llm' = [llm EXCEPT !.path = path]
    /\ loading' = [loading EXCEPT !.thread[t].pc = "outside"]
    /\ LoadUnchanged

NextLoad ==
    \/ \E t \in Callers : GenerateCall(t)
    \/ \E t \in Callers : LoadAcquire(t)
    \/ \E t \in Callers, critical \in BOOLEAN : LoadCheck(t, critical)
    \/ \E t \in Callers, works \in BOOLEAN : LoadTry(t, works)
    \/ \E t \in Callers : LoadFinish(t)
    \/ \E t \in Callers, path \in {"fallback_system", "model", "raised", "too_short"} :
          GenerateReturn(t, path)

SpecLoad == InitLoad /\ [][NextLoad]_vars

----------------------------------------------------------------------------
(* The dashboard of streamlit_ui.py as a client of POST /chat, next to      *)
(* other clients that delete sessions and, on the advanced server, the      *)
(* cleanup passes                                                           *)

\* initialize_session_state: current_session_id (None is NoSessionId) and
\* conversation_count, with history: the dashboard's latest action, the
\* session_id of its latest payload, and the status (0: no response) and
\* session_id of the latest response it read
NewDashboard ==
    [ current_session_id |-> NoSessionId, conversation_count |-> 0,
      event |-> "none", sent |-> NoSessionId, status |-> 0, answered |-> NoSessionId ]

\* a send_chat_message that forgets the session when the send fails
send_chat_message_ForgetsOnError(state, status, session_id) ==
    LET sending == [state EXCEPT !.event = "send", !.sent = state.current_session_id,
                                 !.status = status]
    IN  IF status = 200
        THEN [sending EXCEPT !.current_session_id = session_id,
                             !.answered = session_id,
                             !.conversation_count = @ + 1]
        ELSE [sending EXCEPT !.current_session_id = NoSessionId]

\* send_chat_message and the bookkeeping of display_main_interface after it:
\* st.session_state once the request has been answered with the given status
\* and session_id (status 0: requests.post raised)
send_chat_message(state, status, session_id) ==
    LET sending == [state EXCEPT !.event = "send", !.sent = state.current_session_id,
                                 !.status = status]
    IN  IF status = 200
        THEN [sending EXCEPT !.current_session_id = session_id,
                             !.answered = session_id,
                             !.conversation_count = @ + 1]
        ELSE sending

\* what becomes of the response: it is read, or requests.post times out
Arrivals == {"answered", "timeout"}

\* what the dashboard reads of the request the server has just handled
Received(arrives) ==
    IF arrives = "answered"
    THEN send_chat_message(dashboard, last'.status, last'.session_id)
    ELSE send_chat_message(dashboard, 0, NoSessionId)

InitDash ==
    /\ server \in {"basic", "advanced"}
    /\ now = 0
    /\ sessions = EmptyDict
    /\ session_metadata = EmptyDict
    /\ cleanup = Sleeping
    /\ last = NoOutcome
    /\ issued = {}
    /\ removed = {}
    /\ llm = NewLLM
    /\ metrics = NotObserved
    /\ loading = NotObserved
    /\ dashboard = NewDashboard

\* Send, with api_server.py behind API_BASE_URL
DashboardSend(message, personality, technique, elapsed, arrives) ==
    /\ ChatHandler(dashboard.current_session_id, message, personality, technique, elapsed)
    /\ dashboard' = Received(arrives)

\* Send, with src/api_server.py behind API_BASE_URL
AdvDashboardSend(message, personality, technique, ends, arrives) ==
    /\ AdvChatHandler(dashboard.current_session_id, message, personality, technique, ends)
    /\ dashboard' = Received(arrives)

\* Send while the server cannot be reached: requests.post raises
DashboardSendRefused ==
    /\ server \in {"basic", "advanced"}
    /\ dashboard' = send_chat_message(dashboard, 0, NoSessionId)
    /\ UNCHANGED <<server, now, sessions, session_metadata, cleanup, last, issued, removed,
                   llm, metrics, loading>>

\* the Clear Chat button
ClearChat ==
    /\ server \in {"basic", "advanced"}
    /\ dashboard' = [dashboard EXCEPT !.current_session_id = NoSessionId,
                                      !.conversation_count = 0,
                                      !.event = "clear"]
    /\ UNCHANGED <<server, now, sessions, session_metadata, cleanup, last, issued, removed,
                   llm, metrics, loading>>

NextDash ==
    \/ Tick
    \/ \E message \in SessionMessages, personality \in SessionPersonalities,
          technique \in SessionTechniques, elapsed \in 0..MaxElapsed, arrives \in Arrivals :
            DashboardSend(message, personality, technique, elapsed, arrives)
    \/ \E message \in SessionMessages, personality \in SessionPersonalities,
          technique \in SessionTechniques, ends \in ChatEnds, arrives \in Arrivals :
            AdvDashboardSend(message, personality, technique, ends, arrives)
    \/ DashboardSendRefused
    \/ ClearChat
    \/ \E requested \in RequestIds : DeleteSessionReq(requested)
    \/ \E requested \in RequestIds : AdvDeleteSessionReq(requested)
    \/ CleanupPass

SpecDash == InitDash /\ [][NextDash]_vars

----------------------------------------------------------------------------
(* Properties *)

IsPrefix(a, b) == Len(a) <= Len(b) /\ SubSeq(b, 1, Len(a)) = a

\* a request that went through create_session has just been answered
Created ==
    /\ last' # last
    /\ \/ last'.op = "create_session"
       \/ last'.op = "chat" /\ last'.requested = NoSessionId

\* C1: every create_session returns an id that no earlier create_session
\* returned, whether or not that session has been deleted since
C1_UniqueIds == [][Created => last'.session_id \notin issued]_vars

\* C2: the personality stored for a session id does not change while the id
\* stays live
C2_PersonalityFixed ==
    [][\A sid \in Live \cap DOMAIN sessions' :
          sessions'[sid].personality = sessions[sid].personality]_vars

\* C3: every step leaves the conversation of a live session unchanged or
\* extends it at the end: the conversation before is a prefix of the one after
C3_AppendOnly ==
    [][server = "basic" =>
          \A sid \in Live \cap DOMAIN sessions' :
              IsPrefix(sessions[sid].conversation, sessions'[sid].conversation)]_vars

\* C4: an id that was removed from the registry never identifies a live
\* session again
C4_DeletedIsTerminal == Live \cap removed = {}

\* the keywords of a personality's table that occur in the lower-cased message
MatchingKeywords(personality, message) ==
    {i \in 1..Len(Responses(personality)) :
        Contains(Responses(personality)[i].keyword, Lower(message))}

Answered == last.op = "chat" /\ last.status = 200

\* C5: when the lower-cased message contains a keyword of the personality's
\* table, chat returns the technique's prefix followed by the block of the
\* first such keyword in table order, whatever the session's history
C5_FirstKeywordBlock ==
    (Answered /\ MatchingKeywords(last.personality, last.message) # {}) =>
        \E i \in MatchingKeywords(last.personality, last.message) :
            /\ \A j \in MatchingKeywords(last.personality, last.message) : i <= j
            /\ last.response =
                 TechniquePrefix(last.technique) \o Responses(last.personality)[i].block

C5_Witness ==
    /\ Answered
    /\ last.personality = "technical_expert"
    /\ last.message = "Debugging memory"
    /\ last.technique = "few_shot"
    /\ Len(sessions[ProbeId].conversation) = 4
    /\ last.response = "Based on similar situations I've encountered:\n\nFor Python API memory optimization, here's my systematic approach:"

\* C6 as stated: without a keyword in the message the response is the
\* personality's generic fallback string, for every technique
C6_BareFallback ==
    (Answered /\ MatchingKeywords(last.personality, last.message) = {}) =>
        last.response = Defaults(last.personality)

\* C6 amended: without a keyword in the message the response is the
\* technique's prefix followed by the personality's generic fallback string
\* (the bare fallback under technique standard)
C6_PrefixedFallback ==
    (Answered /\ MatchingKeywords(last.personality, last.message) = {}) =>
        /\ last.response = TechniquePrefix(last.technique) \o Defaults(last.personality)
        /\ last.technique = "standard" => last.response = Defaults(last.personality)

C6_Witness ==
    /\ Answered
    /\ last.personality = "creative_partner"
    /\ last.message = "hello memory"
    /\ last.technique = "socratic"
    /\ last.response = "Let me help you explore this through guided questions:\n\nThat sounds like an exciting creative project! What aspect would you like to explore first - character development, plot structure, world-building, or writing techniques?"

\* the texts a response can carry under technique standard
BareTexts(personality) ==
    {Responses(personality)[i].block : i \in 1..Len(Responses(personality))}
    \cup {Defaults(personality)}

\* C7: the response under a technique is that technique's prefix followed by
\* the response to the same message under technique standard, which is a bare
\* block or fallback
C7_TechniqueIsPrefixOnly ==
    Answered =>
        LET standard == SelectResponse(last.personality, last.message, "standard")
        IN  /\ last.response = TechniquePrefix(last.technique) \o standard
            /\ standard \in BareTexts(last.personality)
            /\ last.technique = "standard" => last.response = standard

C7_Witness ==
    /\ Answered
    /\ last.personality = "technical_expert"
    /\ last.message = "memory"
    /\ last.technique = "chain_of_thought"
    /\ last.response = "Let me think through this systematically, step by step:\n\n"
                          \o "For Python API memory optimization, here's my systematic approach:"

\* C8: right after create_session returned an id, the registry holds under
\* that id a session with the requested personality, an empty conversation and
\* zero counters
C8_FreshAfterCreate ==
    (server = "basic" /\ last.op = "create_session") =>
        /\ last.session_id \in Live
        /\ sessions[last.session_id].personality = last.personality
        /\ sessions[last.session_id].conversation = <<>>
        /\ sessions[last.session_id].stats.total_messages = 0
        /\ sessions[last.session_id].stats.total_processing_time = 0

C8_Witness ==
    /\ server = "basic"
    /\ last.op = "create_session"
    /\ last.personality = "creative_partner"
    /\ last.session_id \in removed
    /\ Cardinality(Live) = 2

\* a chat, analysis or delete request that names a session id has just been answered
Looked ==
    /\ last' # last
    /\ last'.op \in {"chat", "analysis", "delete"}
    /\ last'.requested # NoSessionId

\* C9: after DELETE /sessions the registry (and the metadata map) is empty,
\* and as long as the registry is empty every request naming a session id is
\* answered 404 and leaves it empty
C9_ClearAllEmpties ==
    [][ /\ last'.op = "clear_all" => (DOMAIN sessions' = {} /\ DOMAIN session_metadata' = {})
        /\ (Live = {} /\ Looked) => (last'.status = 404 /\ DOMAIN sessions' = {}) ]_vars

C9_Witness ==
    /\ server = "advanced"
    /\ last.op = "analysis"
    /\ last.status = 404
    /\ last.requested \in removed
    /\ Live = {}
    /\ session_metadata = EmptyDict

\* the cleanup thread removes a session in this step
SweepRemoves(sid) ==
    /\ cleanup.pc = "pop_sessions"
    /\ cleanup'.pc = "pop_metadata"
    /\ sid \in Live
    /\ sid \notin DOMAIN sessions'

\* the cleanup thread finishes a pass in this step
SweepEnds == cleanup.pc = "pop_sessions" /\ cleanup'.pc = "sleep"

\* C10: a cleanup pass removes exactly the sessions whose last activity lies
\* more than the TTL back: a session it removes has exceeded the TTL, and
\* when the pass ends no session that has exceeded the TTL is left
C10_SweepRemovesExactlyExpired ==
    [][ /\ \A sid \in Live :
              SweepRemoves(sid) =>
                  /\ sid \in DOMAIN session_metadata
                  /\ now - session_metadata[sid].last_activity > session_timeout
        /\ SweepEnds =>
              \A sid \in DOMAIN session_metadata' :
                  ~(cleanup.now - session_metadata'[sid].last_activity > session_timeout) ]_vars

\* C14: once a load_model call has returned failure, every later
\* generate_response call attempts no load and answers from the fallback
\* responder
C14_FailedLoadRemembered ==
    [][(server = "llm" /\ llm.load_failed) =>
          (llm'.load_attempts = 0 /\ llm'.path = "fallback_system")]_vars

\* C15: in each of the three degraded cases (no model could be loaded, the
\* generated text is shorter than the minimum, generation raised) the text
\* returned is the keyword-table response to the last user message under the
\* conversation's personality
C15_DegradedIsKeywordTable ==
    (last.op = "generate" /\ llm.path \in {"fallback_system", "too_short", "raised"}) =>
        last.response = Fallback(last.message, last.personality)

\* a request handler ran in this step: the registry or the history changed,
\* and the step is neither one of the cleanup thread nor a cleanup pass
Handled ==
    /\ <<sessions, session_metadata, last, issued, removed>>'
          # <<sessions, session_metadata, last, issued, removed>>
    /\ cleanup' = cleanup
    /\ ~CleanupPass

\* C11: a chat or analysis request that names an id which is not in the
\* registry is answered 404 and leaves the registry and the metadata as they
\* were
C11_NotFoundChangesNothing ==
    [][(/\ last'.op \in {"chat", "analysis"}
        /\ last'.requested # NoSessionId
        /\ last'.requested \notin Live
        /\ Handled) =>
            /\ last'.status = 404
            /\ UNCHANGED <<sessions, session_metadata>>]_vars

C11_Witness ==
    /\ server = "advanced"
    /\ last.op = "chat"
    /\ last.status = 404
    /\ last.requested \in removed
    /\ \E sid \in Live : Len(sessions[sid].messages) = 2

\* the step is a chat request that named session sid and was answered
ChatOn(sid) ==
    /\ last'.op = "chat"
    /\ last'.status = 200
    /\ last'.requested = sid
    /\ Handled

\* C12: a chat on session s changes only s: the set of live ids stays as it
\* was and every other session, and every other session's metadata, is left
\* unchanged
C12_ChatChangesOnlyItsSession ==
    [][\A sid \in {last'.requested} \cap RequestIds :
          ChatOn(sid) =>
              /\ DOMAIN sessions' = DOMAIN sessions
              /\ DOMAIN session_metadata' = DOMAIN session_metadata
              /\ \A other \in Live \ {sid} : sessions'[other] = sessions[other]
              /\ \A other \in DOMAIN session_metadata \ {sid} :
                     session_metadata'[other] = session_metadata[other]]_vars

C12_Witness ==
    /\ server = "basic"
    /\ last.op = "chat"
    /\ last.status = 200
    /\ last.requested \in Live
    /\ Len(sessions[last.requested].conversation) = 2
    /\ \E other \in Live \ {last.requested} : Len(sessions[other].conversation) = 2

\* the turns a session holds: M1ChatbotSystem's conversation list, or the
\* history of an AdvancedChatbot
History(session) ==
    IF server = "advanced" THEN session.messages ELSE session.conversation

\* turns come in pairs, a user turn followed by an assistant turn
WholeExchanges(turns) ==
    /\ Len(turns) % 2 = 0
    /\ \A i \in 1..Len(turns) :
          turns[i].role = IF i % 2 = 1 THEN "user" ELSE "assistant"

\* the step is a chat request that ended in an error
ChatFailed ==
    /\ last'.op = "chat"
    /\ last'.status # 200
    /\ Handled

\* C13: no partial exchange is ever visible: in every reachable state each
\* conversation has even length and alternates user, assistant, and the
\* message count of the stats agrees with it; a chat that ends in an error
\* leaves every conversation and every session's stats as they were (a
\* session the failed request itself opened holds no turn)
C13_NoPartialExchange ==
    /\ [](\A sid \in Live :
            /\ WholeExchanges(History(sessions[sid]))
            /\ server = "basic" =>
                  sessions[sid].stats.total_messages = Len(sessions[sid].conversation))
    /\ [][ChatFailed =>
            IF last'.requested # NoSessionId
            THEN sessions' = sessions
            ELSE /\ last'.session_id \in DOMAIN sessions'
                 /\ History(sessions'[last'.session_id]) = <<>>
                 /\ \A sid \in (Live \cap DOMAIN sessions') \ {last'.session_id} :
                        sessions'[sid] = sessions[sid]]_vars

C13_Witness ==
    /\ server = "advanced"
    /\ last.op = "chat"
    /\ last.status = 500
    /\ last.requested \in Live
    /\ \E sid \in Live : Len(sessions[sid].messages) = 2

\* C16: when POST /chat/compare returns, the set of live session ids is the
\* set before the call, so none of the sessions it created is in the registry
C16_CompareDiscardsItsSessions ==
    [][(Handled /\ last'.op = "compare") =>
          /\ DOMAIN sessions' = DOMAIN sessions
          /\ DOMAIN session_metadata' = DOMAIN session_metadata]_vars

\* the cleanup thread is inside _cleanup_old_sessions
Sweeping == cleanup.pc \in {"scan", "pop_sessions", "pop_metadata"}

\* C17: single-writer discipline: between the first and the last step of a
\* sweep no request handler changes the registry or the metadata
C17_SingleWriter ==
    [][(Sweeping /\ cleanup' = cleanup) => UNCHANGED <<sessions, session_metadata>>]_vars

\* the step is a create_session call (POST /sessions, or POST /chat without an
\* id) made while the live-session count has reached the cap
EagerSweep ==
    /\ Advanced
    /\ \/ last'.op = "create_session"
       \/ last'.op = "chat" /\ last'.requested = NoSessionId
    /\ Cardinality(Live) >= max_sessions
    /\ Handled

\* the step is one of the cleanup thread's pops
ThreadPop == cleanup.pc = "pop_sessions" /\ cleanup'.pc = "pop_metadata"

\* the sessions a sweep step removes, and the sessions the sweep keeps: the
\* thread keeps what is not on its expired list, a create keeps all but the
\* id it stores
Swept == (Live \ DOMAIN sessions') \cap DOMAIN session_metadata
Kept ==
    (DOMAIN sessions' \cap Live \cap DOMAIN session_metadata)
       \ (IF ThreadPop THEN cleanup.expired
          ELSE IF EagerSweep THEN {last'.session_id} ELSE {})

\* C18: a create_session call at the cap runs the sweep before it inserts, so
\* that no session expired at that moment is left; and no sweep, eager or of
\* the thread, removes a session while keeping one whose last activity is
\* older
C18_EagerOldestFirst ==
    [][ /\ EagerSweep =>
              \A kept \in Kept : ~IsExpired(session_metadata[kept], now)
        /\ (EagerSweep \/ ThreadPop \/ CleanupPass) =>
              \A sid \in Swept, kept \in Kept :
                  session_metadata[kept].last_activity
                      >= session_metadata[sid].last_activity ]_vars

\* what holds after a POST /chat without a session id that asked for the given
\* personality with the given message and was answered
AutoCreated(personality, message) ==
    LET sid == last'.session_id
    IN  /\ last'.status = 200
        /\ last'.requested = NoSessionId
        /\ sid \in DOMAIN sessions'
        /\ DOMAIN sessions' \ DOMAIN sessions \subseteq {sid}
        /\ sessions'[sid].personality = personality
        /\ LET turns == History(sessions'[sid])
           IN  /\ Len(turns) = 2
               /\ turns[1].role = "user" /\ turns[1].content = message
               /\ turns[2].role = "assistant" /\ turns[2].content = last'.response
        /\ server = "basic" =>
              \A other \in Live \ {sid} : sessions'[other] = sessions[other]

\* C19: a POST /chat without a session id creates one session with the
\* requested personality; the session_id of the response names it, it is live
\* afterwards and holds exactly the one exchange, the user turn followed by
\* the assistant turn; no other id enters the registry
C19_AutoCreateChat ==
    [][(last'.op = "chat" /\ last'.requested = NoSessionId) =>
          \A personality \in SessionPersonalities, message \in SessionMessages,
             technique \in SessionTechniques :
             /\ (\E elapsed \in 0..MaxElapsed :
                    ChatReq(NoSessionId, message, personality, technique, elapsed))
                   => AutoCreated(personality, message)
             /\ AdvChatReq(NoSessionId, message, personality, technique, "returns")
                   => AutoCreated(personality, message)]_vars

C19_Witness ==
    /\ server = "basic"
    /\ last.op = "chat"
    /\ last.status = 200
    /\ last.requested = NoSessionId
    /\ last.session_id \in Live
    /\ last.personality = "creative_partner"
    /\ Len(sessions[last.session_id].conversation) = 2
    /\ Cardinality(Live) = 2

\* C20: DELETE /session/{id} on a live id is answered 200 and removes exactly
\* that session and its metadata, every other session and metadata record
\* staying as it was; on an id that is not live it is answered 404 and leaves
\* the registry and the metadata unchanged
C20_DeleteRemovesExactlyOne ==
    [][\A requested \in {last'.requested} \cap RequestIds :
          (DeleteSessionReq(requested) \/ AdvDeleteSessionReq(requested)) =>
              IF requested \in Live
              THEN /\ last'.status = 200
                   /\ DOMAIN sessions' = Live \ {requested}
                   /\ \A other \in Live \ {requested} : sessions'[other] = sessions[other]
                   /\ DOMAIN session_metadata' = DOMAIN session_metadata \ {requested}
                   /\ \A other \in DOMAIN session_metadata \ {requested} :
                          session_metadata'[other] = session_metadata[other]
              ELSE /\ last'.status = 404
                   /\ UNCHANGED <<sessions, session_metadata>>]_vars

C20_Witness ==
    /\ server = "advanced"
    /\ last.op = "delete"
    /\ last.status = 200
    /\ last.requested \notin Live
    /\ last.requested \notin DOMAIN session_metadata
    /\ \E other \in Live : Len(sessions[other].messages) = 2

\* C21: the stored response times are the last ResponseWindow tracked ones, in
\* order, so at most ResponseWindow of them; the request counter counts every
\* tracked request; the reported average is 0 when nothing has been tracked
C21_RollingLatency ==
    server = "tracker" =>
        /\ Len(metrics.response_times) <= ResponseWindow
        /\ metrics.response_times = LastN(metrics.tracked, ResponseWindow)
        /\ metrics.request_counter = Len(metrics.tracked)
        /\ (metrics.request_counter = 0 => avg_response_time(metrics) = 0)
        /\ (metrics.response_times # <<>> =>
               avg_response_time(metrics) * Len(metrics.response_times)
                   <= SumOf(metrics.response_times))

C21_Witness ==
    /\ server = "tracker"
    /\ metrics.request_counter = ResponseWindow + 2
    /\ Len(metrics.response_times) = ResponseWindow
    /\ metrics.tracked[1] # metrics.tracked[ResponseWindow + 1]
    /\ metrics.response_times[1] # metrics.response_times[2]

\* session sid is live and its last activity lies more than the timeout back
ExpiredLive(sid) ==
    /\ Advanced
    /\ sid \in Live
    /\ sid \in DOMAIN session_metadata
    /\ IsExpired(session_metadata[sid], now)

\* C22: under fair scheduling of the cleanup thread an expired session does
\* not stay: it is removed in the end, unless a lookup or a new creation under
\* its id refreshes its last activity
C22_ExpiredEventuallyRemoved ==
    \A sid \in RequestIds : ExpiredLive(sid) ~> ~ExpiredLive(sid)

\* C23: the number of live sessions of the advanced server never exceeds
\* max_sessions
C23_LiveWithinCap ==
    Advanced => Cardinality(Live) <= max_sessions

\* C24: when an operation of the advanced server completes (a handler's
\* create, get, delete or clear-all, or a sweep), the session map and the
\* metadata map have the same keys
C24_SameKeys ==
    [][(Advanced /\ (SweepEnds \/ CleanupPass \/ Handled)) =>
          DOMAIN sessions' = DOMAIN session_metadata']_vars

\* the sum of the counts of a frequency table
RECURSIVE Total(_)
Total(frequency) ==
    IF DOMAIN frequency = {} THEN 0
    ELSE LET key == CHOOSE k \in DOMAIN frequency : TRUE
         IN  frequency[key] + Total([k \in DOMAIN frequency \ {key} |-> frequency[k]])

\* the step is a successful chat on the session with id sid
ChatSucceeds(sid) ==
    /\ last'.op = "chat"
    /\ last'.status = 200
    /\ last'.session_id = sid
    /\ Handled

\* the step stores a new session under id sid
Creates(sid) ==
    /\ \/ last'.op = "create_session"
       \/ last'.op = "chat" /\ last'.requested = NoSessionId
    /\ last'.session_id = sid
    /\ Handled

\* C25: for every live session of M1ChatbotSystem, stats.total_messages is the
\* length of the conversation, the analysis counts as many user turns as
\* assistant turns and its technique frequencies sum to the number of user
\* turns; the conversation of a new session is empty, grows by two turns with
\* every successful chat on the session and changes with no other step, so
\* that its length is twice the number of successful chats on the session
C25_CountersAgree ==
    /\ [](server = "basic" =>
            \A sid \in Live :
               LET analysis == SessionAnalysis(sessions[sid])
               IN  /\ sessions[sid].stats.total_messages = analysis.total_messages
                   /\ analysis.user_messages = analysis.assistant_messages
                   /\ analysis.user_messages + analysis.assistant_messages
                         = analysis.total_messages
                   /\ Total(analysis.technique_frequency) = analysis.user_messages)
    /\ [][server = "basic" =>
            \A sid \in DOMAIN sessions' :
               Len(sessions'[sid].conversation) =
                  (IF sid \in Live /\ ~Creates(sid)
                   THEN Len(sessions[sid].conversation) ELSE 0)
                  + (IF ChatSucceeds(sid) THEN 2 ELSE 0)]_vars

C25_Witness ==
    /\ server = "basic"
    /\ last.op = "analysis"
    /\ last.status = 200
    /\ last.requested \in Live
    /\ sessions[last.requested].stats.total_messages = 2
    /\ SessionAnalysis(sessions[last.requested]).technique_frequency
          = [technique \in {"chain_of_thought"} |-> 1]

\* C26: a chat that names an existing session is answered with the session's
\* personality: the response is the one chosen under the personality the
\* session was created with, and the personality the response reports is that
\* personality, whatever the request's personality field says
C26_SessionPersonalityWins ==
    [][\A sid \in {last'.requested} \cap Live :
          ChatOn(sid) =>
              /\ last'.personality = sessions[sid].personality
              /\ last'.response =
                    IF server = "advanced"
                    THEN Fallback(last'.message, sessions[sid].personality)
                    ELSE ResponseTable[sessions[sid].personality, last'.message,
                                       last'.technique]]_vars

\* a chat or analysis request naming sid has been answered by the advanced
\* server in this step: the handler has called get_session(sid)
LookedUp(sid) ==
    /\ last'.op \in {"chat", "analysis"}
    /\ last'.requested = sid
    /\ Advanced
    /\ Handled

Errors(m) == IF "error_counter" \in DOMAIN m THEN m.error_counter ELSE m.error_count

\* C28: every completed POST /chat, whether answered 200, 404 or 500, adds
\* exactly one to the request counter, and adds one to the error counter
\* exactly when it was not answered 200
C28_EveryChatCounted ==
    [][(/\ last'.op = "chat"
        /\ server \in {"basic", "advanced"}
        /\ Handled) =>
           /\ Tracked(metrics') = Tracked(metrics) + 1
           /\ Errors(metrics') = Errors(metrics) + (IF last'.status = 200 THEN 0 ELSE 1)]_vars

\* thread t is inside the with block of load_model
InLoadingSection(t) == loading.thread[t].pc \in {"locked", "try", "loaded", "exhausted"}

\* thread t takes a step
Steps(t) == loading'.thread[t] # loading.thread[t]

\* C29: whatever the interleaving of generate_response calls on one object,
\* at most one thread is inside the loading section, a candidate is loaded
\* at most once, is_loaded once true stays true, a load_model call that
\* finds is_loaded true returns True without trying a candidate, and the
\* candidates a call tries are distilgpt2 then gpt2, none after a success
C29_LoadedOnce ==
    /\ [](server = "loader" =>
            /\ Cardinality({t \in Callers : InLoadingSection(t)}) <= 1
            /\ loading.loads <= 1
            /\ \A t \in Callers : IsPrefix(loading.thread[t].tried, free_models))
    /\ [][server = "loader" =>
            /\ llm.is_loaded => llm'.is_loaded
            /\ \A t \in Callers :
                  /\ (Steps(t) /\ loading.thread[t].pc = "locked" /\ llm.is_loaded) =>
                        /\ loading'.thread[t].returned = "True"
                        /\ loading'.thread[t].tried = <<>>
                        /\ loading'.loads = loading.loads
                        /\ llm' = llm
                  /\ (Steps(t) /\ loading.thread[t].pc = "loaded") =>
                        /\ loading'.thread[t].tried = loading.thread[t].tried
                        /\ loading'.thread[t].returned = "True"
                        /\ llm'.is_loaded
                        /\ llm'.model_name
                              = loading.thread[t].tried[Len(loading.thread[t].tried)]]_vars

\* a second thread has found the model loaded by the first, under the lock,
\* after the first one had to go on to gpt2
C29_Witness ==
    /\ server = "loader"
    /\ llm.is_loaded
    /\ llm.model_name = "gpt2"
    /\ loading.loads = 1
    /\ \E t, u \in Callers :
          /\ loading.thread[t].tried = free_models
          /\ loading.thread[t].returned = "True"
          /\ loading.thread[u].pc = "generate"
          /\ loading.thread[u].tried = <<>>
          /\ loading.thread[u].returned = "True"

\* the dashboard has sent a message in this step, has cleared the chat
Sent == dashboard' # dashboard /\ dashboard'.event = "send"
Cleared == dashboard' # dashboard /\ dashboard'.event = "clear"

====
